---- MODULE Spec2Model ----
(***************************************************************************)
(* A model of the transcription pipeline of LocalDeepgramSTT:              *)
(*   - AudioTranscriber (src/transcriber.py): process_file, the dispatch   *)
(*     of the chunks of a file to the provider under a semaphore, a rate   *)
(*     limiter and a retry decorator, the recombination of the responses,  *)
(*     the writing of the two transcript files;                            *)
(*   - FileTracker (src/file_tracker.py): the ledger of processed files.   *)
(*   - chunk_audio (src/utils/audio_utils.py): the loop that cuts an audio *)
(*     file into chunks.                                                   *)
(* Time is counted in ticks of time_period / max_rate seconds (0.2 s), the *)
(* time in which the rate limiter's bucket leaks one unit.                 *)
(***************************************************************************)
EXTENDS Integers, Sequences, FiniteSets, TLC

\* ------------------------------------------------------------ bounds
\* The number of chunks of the long file x.mp4 in a run of the dispatch.
MaxSeg == 3
\* The largest number of whole CHUNK_SIZE seconds in the duration of an
\* audio file given to chunk_audio, and the largest chunk number at which
\* its ffmpeg command may fail.
PlanSeg == 2
\* The number of provider-call attempts that fail or time out in one run.
MaxFail == 3
\* The number of chunks of the long file in the run that fills the semaphore.
CapSeg == 5
\* The largest number of chunks chunk_audio returns in a run of process_file.
PipeSeg == 2
\* The largest value of time.time() reached.
MaxClock == 2

\* ------------------------------------------------- program constants
\* asyncio.Semaphore(5)
SemaphoreSlots == 5
\* AsyncLimiter(5, 1): max_rate units per time_period
max_rate == 5
\* @backoff.on_exception(backoff.expo, Exception, max_tries=3)
max_tries == 3
\* CHUNK_SIZE = 15 * 60, in seconds
CHUNK_SIZE == 900
\* is_valid_audio(file_path, min_size_kb=10)
min_size_kb == 10
\* max_invalid = 3
max_invalid == 3
\* '-b:a', '128k': kilobits per second of the .aac files
bitrate_k == 128

\* -------------------------------------------------------- the files
\* The media files of the directory being transcribed.
SourceFiles == {[stem |-> "x", ext |-> "mp4"], [stem |-> "y", ext |-> "mp3"]}

\* Path.name
Name(r) == r.stem \o "." \o r.ext

Files == {Name(r) : r \in SourceFiles}

\* The media files a directory may hold: those, and an audio file with the
\* stem of the video.
DirEntries == SourceFiles \cup {[stem |-> "x", ext |-> "mp3"]}

\* Path.stem and Path.suffix (without its dot) of a media file.
Stem(f) == (CHOOSE r \in DirEntries : Name(r) = f).stem

Suffix(f) == (CHOOSE r \in DirEntries : Name(r) = f).ext

\* The directory being transcribed, and another one.
WorkDir == "d1"

OtherDir == "d2"

PathOf(dir, name) == dir \o "/" \o name

\* file_path, transcript_path and diarized_transcript_path of process_file
file_path(f) == PathOf(WorkDir, f)

transcript_path(f) == PathOf(WorkDir, Stem(f) \o ".md")

diarized_transcript_path(f) == PathOf(WorkDir, Stem(f) \o "_diarized.md")

VideoSuffixes == {"mp4", "mov", "avi", "mkv", "webm"}

\* video_path.with_suffix('.aac') of extract_audio_from_video, and
\* file_path.with_suffix('.aac') of chunk_audio
aac_path(f) == PathOf(WorkDir, Stem(f) \o ".aac")

\* audio_path of process_file
audio_path(f) == IF Suffix(f) \in VideoSuffixes THEN aac_path(f) ELSE file_path(f)

\* chunk_path of chunk_audio: the stem of the .aac file, _chunk_ and the number
chunk_path(f, i) == PathOf(WorkDir, Stem(f) \o "_chunk_" \o ToString(i) \o ".aac")

MaxChunks == IF CapSeg > MaxSeg THEN CapSeg ELSE MaxSeg

\* The chunk tasks a file may have: <<file, chunk_num>>.
Segs == Files \X (0 .. MaxChunks - 1)

\* The files the tracker is asked about: the media files, and x.mp4 in
\* another directory.
TrackedFiles ==
    {[dir |-> WorkDir, name |-> f] : f \in Files} \cup {[dir |-> OtherDir, name |-> "x.mp4"]}

PathStr(t) == PathOf(t.dir, t.name)

AllPaths ==
    {PathStr(t) : t \in TrackedFiles}
    \cup {PathOf(WorkDir, Name(r)) : r \in DirEntries}
    \cup {transcript_path(f) : f \in Files}
    \cup {diarized_transcript_path(f) : f \in Files}
    \cup {aac_path(f) : f \in Files}
    \cup {chunk_path(s[1], s[2]) : s \in Segs}

\* The contents of media files.
Bytes == {"A", "B"}

OtherBytes(b) == IF b = "A" THEN "B" ELSE "A"

\* What a path holds: nothing, a media file, an .aac file made from one, a
\* chunk of it, a transcript file.
Absent == [kind |-> "absent"]

Media(b) == [kind |-> "media", bytes |-> b]

Audio(b) == [kind |-> "audio", bytes |-> b]

ChunkFile(b, i) == [kind |-> "chunk", bytes |-> b, num |-> i]

\* A text file: its paragraphs, the bytes of the media file they are the
\* transcript of, and whether all of them were written.
TextFile(body, b, whole) == [kind |-> "text", body |-> body, bytes |-> b, complete |-> whole]

VARIABLES
    pc,        \* pc[s]: where the task transcribe_chunk(s) stands; at its end "ok",
               \* or the exception it ended with, "error" or "timeout"
    tries,     \* tries[s]: the invocations of transcribe_chunk(s) by the retry decorator
    free,      \* the value of self.semaphore
    level,     \* the level of the rate limiter's bucket
    window,    \* ticks left of the second in which calls are counted (0: not counting)
    calls,     \* provider calls initiated in that second so far
    budget,    \* attempts the provider will still fail or let time out
    fpc,       \* fpc[f]: where process_file(f) stands
    nchunks,   \* nchunks[f]: the length of the list chunk_audio returned for f
    combined,  \* combined[f]: what transcribe_audio(f) returned
    disk,      \* disk[p]: what the path p holds
    ledger,    \* FileTracker.processed_files["directories"]
    saved,     \* what processed_files.json holds
    clock,     \* time.time()
    outcome,   \* what the last call of a method of the tracker returned or raised
    loop,      \* the locals of chunk_audio while its loop is observed, or None
    peer,      \* processed_files["directories"] of the FileTracker of a second
               \* run of the program on the same processed_files.json, or None
    orphans    \* the calls of transcribe_file still running in worker threads
               \* after wait_for gave their attempt up, while the threads are
               \* observed, or None

\* The variables of the dispatch, of the files and of the tracker.
dvars == <<pc, tries, free, level, window, calls, budget>>

fvars == <<fpc, nchunks, combined>>

tvars == <<ledger, saved, clock, outcome>>

vars == <<pc, tries, free, level, window, calls, budget, fpc, nchunks, combined,
          disk, ledger, saved, clock, outcome, loop, peer, orphans>>

\* The value None of Python.
None == [none |-> TRUE]

\* Path.exists() answering False whatever the path holds.
Exists_Never(p) == FALSE

Exists(p) == disk[p] # Absent

\* os.remove of each path of ps that exists.
Removed(d, ps) == [p \in AllPaths |-> IF p \in ps THEN Absent ELSE d[p]]

\* ------------------------------------------------------ the provider
\* The transcript the provider returns for a chunk: the chunk's own words.
Text(s) == <<s[1], ToString(s[2])>>

\* response.to_dict() of a successful call on chunk s: the transcript and
\* the paragraphs of the first alternative of the first channel.
Response(s) == [transcript |-> Text(s), paragraphs |-> <<Text(s)>>]

\* ------------------------------------------------------ the semaphore
\* asyncio.Semaphore.acquire returns at once iff the value is positive.
SlotFree_Always == TRUE

SlotFree == free > 0

\* --------------------------------------------------- the rate limiter
\* A rate limiter that lets every task through.
has_capacity_Always == TRUE

\* AsyncLimiter.has_capacity(1): level + 1 <= max_rate
has_capacity == level + 1 <= max_rate

Max(a, b) == IF a >= b THEN a ELSE b

\* One more call initiated in the observed second, if one is observed.
Initiated == IF window > 0 THEN calls + 1 ELSE calls

\* --------------------------------------------------- the retry policy
\* backoff gives up when the number of tries reaches max_tries.
GiveUp_OneMore(t) == t > max_tries

GiveUp(t) == t >= max_tries

Exceptions == {"error", "timeout"}

\* --------------------------------------------------- transcribe_chunk
\* An invocation of transcribe_chunk(s) gets a slot of self.semaphore (at
\* once when one is free, or when woken in semaphore.acquire) and, in the
\* same step of the event loop when the bucket has capacity, a permit of
\* self.rate_limiter; it then reads the chunk and starts the provider call.
AcquireSlot(s) ==
    /\ pc[s] = "slot"
    /\ SlotFree
    /\ tries' = [tries EXCEPT ![s] = @ + 1]
    /\ free' = free - 1
    /\ IF has_capacity
       THEN /\ level' = level + 1
            /\ calls' = Initiated
            /\ pc' = [pc EXCEPT ![s] = "call"]
       ELSE /\ pc' = [pc EXCEPT ![s] = "permit"]
            /\ UNCHANGED <<loop, peer, orphans, level, calls>>
    /\ UNCHANGED <<loop, peer, orphans, window, budget, fvars, disk, tvars>>

\* A task holding a slot and waiting in rate_limiter.acquire gets capacity.
AcquirePermit(s) ==
    /\ pc[s] = "permit"
    /\ has_capacity
    /\ level' = level + 1
    /\ calls' = Initiated
    /\ pc' = [pc EXCEPT ![s] = "call"]
    /\ UNCHANGED <<loop, peer, orphans, tries, free, window, budget, fvars, disk, tvars>>

\* The provider call returns a response: both context managers exit.
CallOk(s) ==
    /\ pc[s] = "call"
    /\ pc' = [pc EXCEPT ![s] = "ok"]
    /\ free' = free + 1
    /\ UNCHANGED <<loop, peer, orphans, tries, level, window, calls, budget, fvars, disk, tvars>>

\* asyncio.wait_for cancels the await of asyncio.to_thread at the timeout;
\* the thread cannot be cancelled and goes on with its call of
\* transcribe_file. A call that raised has ended.
Abandoned(kind) ==
    IF orphans = None \/ kind # "timeout" THEN orphans
    ELSE [running |-> orphans.running + 1]

\* An attempt that ends with an exception while keeping its slot.
CallRaise_KeepsSlot(s, kind) ==
    /\ pc[s] = "call"
    /\ budget > 0
    /\ budget' = budget - 1
    /\ pc' = [pc EXCEPT ![s] = IF GiveUp(tries[s]) THEN kind ELSE "backoff"]
    /\ orphans' = Abandoned(kind)
    /\ UNCHANGED <<loop, peer, tries, free, level, window, calls, fvars, disk, tvars>>

\* The attempt ends with an exception (kind: the provider's error, or
\* asyncio.TimeoutError of wait_for): logged and re-raised through both
\* context managers to the retry decorator, which gives up or sleeps.
CallRaise(s, kind) ==
    /\ pc[s] = "call"
    /\ budget > 0
    /\ budget' = budget - 1
    /\ free' = free + 1
    /\ pc' = [pc EXCEPT ![s] = IF GiveUp(tries[s]) THEN kind ELSE "backoff"]
    /\ orphans' = Abandoned(kind)
    /\ UNCHANGED <<loop, peer, tries, level, window, calls, fvars, disk, tvars>>

\* The call of transcribe_file left running in its worker thread ends.
ThreadEnds ==
    /\ orphans # None
    /\ orphans.running > 0
    /\ orphans' = [running |-> orphans.running - 1]
    /\ UNCHANGED <<loop, peer, dvars, fvars, disk, tvars>>

\* The backoff delay (between 0 and 2^n seconds, by full jitter) is over:
\* the decorator invokes transcribe_chunk again.
Retry(s) ==
    /\ pc[s] = "backoff"
    /\ pc' = [pc EXCEPT ![s] = "slot"]
    /\ UNCHANGED <<loop, peer, orphans, tries, free, level, window, calls, budget, fvars, disk, tvars>>

\* Time passing without the bucket leaking.
Tick_NoLeak ==
    /\ level > 0 \/ window > 0
    /\ window' = Max(window - 1, 0)
    /\ calls' = IF window > 1 THEN calls ELSE 0
    /\ UNCHANGED <<loop, peer, orphans, pc, tries, free, level, budget, fvars, disk, tvars>>

\* time_period / max_rate seconds pass: the bucket leaks one unit.
Tick ==
    /\ level > 0 \/ window > 0
    /\ level' = Max(level - 1, 0)
    /\ window' = Max(window - 1, 0)
    /\ calls' = IF window > 1 THEN calls ELSE 0
    /\ UNCHANGED <<loop, peer, orphans, pc, tries, free, budget, fvars, disk, tvars>>

\* ---------------------------------------------------- transcribe_audio
\* The chunk tasks of f in the order of the list chunks.
ChunkSeq(f) == [i \in 1 .. nchunks[f] |-> <<f, i - 1>>]

\* gather taking a task that sleeps before a retry for one that has ended.
Terminal_OrBackoff(s) == pc[s] \in {"ok", "backoff"} \cup Exceptions

Terminal(s) == pc[s] \in {"ok"} \cup Exceptions

\* asyncio.gather(..., return_exceptions=True): one entry per task, in the
\* order of the tasks; then the loop that keeps the entries that are no
\* exceptions, in that order.
RECURSIVE ValidFrom(_, _)
ValidFrom(f, i) ==
    IF i > nchunks[f] THEN <<>>
    ELSE (IF pc[<<f, i - 1>>] = "ok" THEN <<Response(<<f, i - 1>>)>> ELSE <<>>)
         \o ValidFrom(f, i + 1)

\* The loop left at the first exception instead of going on.
RECURSIVE ValidUntilException(_, _)
ValidUntilException(f, i) ==
    IF i > nchunks[f] \/ pc[<<f, i - 1>>] # "ok" THEN <<>>
    ELSE <<Response(<<f, i - 1>>)>> \o ValidUntilException(f, i + 1)

valid_transcriptions_StopAtException(f) == ValidUntilException(f, 1)

Reverse(q) == [i \in 1 .. Len(q) |-> q[Len(q) + 1 - i]]

valid_transcriptions_Reversed(f) == Reverse(ValidFrom(f, 1))

valid_transcriptions(f) == ValidFrom(f, 1)

\* combine_transcriptions: the first response, and the transcript of each of
\* the others appended to it after one space, its paragraphs after the
\* paragraphs.
RECURSIVE CombineFrom(_, _, _)
CombineFrom(acc, ts, i) ==
    IF i > Len(ts) THEN acc
    ELSE CombineFrom([acc EXCEPT !.transcript = @ \o <<" ">> \o ts[i].transcript,
                                 !.paragraphs = @ \o ts[i].paragraphs],
                     ts, i + 1)

combine_transcriptions(ts) == CombineFrom(ts[1], ts, 2)

\* The tasks of f have all ended: the valid responses are kept, the chunk
\* files removed (cleanup_audio_files) and the responses combined.
Gather(f) ==
    /\ fpc[f] = "gather"
    /\ \A i \in 1 .. nchunks[f] : Terminal(ChunkSeq(f)[i])
    /\ LET valid == valid_transcriptions(f) IN
       combined' = [combined EXCEPT ![f] =
                        IF Len(valid) > 1 THEN combine_transcriptions(valid)
                        ELSE IF Len(valid) = 1 THEN valid[1]
                        ELSE None]
    /\ disk' = Removed(disk, {chunk_path(f, i - 1) : i \in 1 .. nchunks[f]})
    /\ fpc' = [fpc EXCEPT ![f] = "transcribed"]
    /\ UNCHANGED <<loop, peer, orphans, dvars, nchunks, tvars>>

\* --------------------------------------------------------- process_file
\* process_file(f) is called: it returns at once when both transcript files
\* exist, and goes on to the extraction of the audio of a video, or to the
\* transcription of an audio file.
Begin(f) ==
    /\ fpc[f] = "idle"
    /\ fpc' = [fpc EXCEPT ![f] =
                  IF Exists(transcript_path(f)) /\ Exists(diarized_transcript_path(f))
                  THEN "skipped"
                  ELSE IF Suffix(f) \in VideoSuffixes THEN "extract" ELSE "chunk"]
    /\ combined' = [combined EXCEPT ![f] = None]
    /\ UNCHANGED <<loop, peer, orphans, dvars, nchunks, disk, tvars>>

\* extract_audio_from_video writes the audio of the video to its .aac path.
ExtractOk(f) ==
    /\ fpc[f] = "extract"
    /\ disk' = [disk EXCEPT ![aac_path(f)] = Audio(disk[file_path(f)].bytes)]
    /\ fpc' = [fpc EXCEPT ![f] = "chunk"]
    /\ UNCHANGED <<loop, peer, orphans, dvars, nchunks, combined, tvars>>

\* The exception of extract_audio_from_video ending every process_file of
\* the batch instead of being logged by its own.
ExtractFail_AbortsBatch(f) ==
    /\ fpc[f] = "extract"
    /\ disk' = Removed(disk, {aac_path(f)})
    /\ fpc' = [g \in Files |-> "failed"]
    /\ UNCHANGED <<loop, peer, orphans, dvars, nchunks, combined, tvars>>

\* extract_audio_from_video fails: it removes its .aac path and raises, and
\* process_file logs the exception.
ExtractFail(f) ==
    /\ fpc[f] = "extract"
    /\ disk' = Removed(disk, {aac_path(f)})
    /\ fpc' = [fpc EXCEPT ![f] = "failed"]
    /\ UNCHANGED <<loop, peer, orphans, dvars, nchunks, combined, tvars>>

\* get_duration(file_path, check_video): with the metadata readable, the
\* pair of the duration and the file size when check_video is set, and the
\* duration alone otherwise; with ffprobe failing or its output no number,
\* the estimate of the duration from the file size, alone in both cases.
get_duration(readable, check_video) ==
    IF readable
    THEN [kind |-> IF check_video THEN "tuple" ELSE "float", estimated |-> FALSE]
    ELSE [kind |-> "float", estimated |-> TRUE]

\* video_duration, video_size = ...: a float cannot be unpacked (TypeError).
Unpacks(v) == v.kind = "tuple"

\* extract_audio_from_video calls get_duration(video_path, check_video=True),
\* the metadata of the video being readable or not.
GetVideoDuration(f, readable) ==
    /\ fpc[f] = "extract"
    /\ fpc' = [fpc EXCEPT ![f] =
                  IF get_duration(readable, TRUE).estimated THEN "estimated" ELSE "probed"]
    /\ UNCHANGED <<loop, peer, orphans, dvars, nchunks, combined, disk, tvars>>

\* What get_duration returned to extract_audio_from_video(f).
VideoDuration(f) == get_duration(fpc[f] = "probed", TRUE)

\* The value is unpacked and ffmpeg writes the audio to the .aac path.
ExtractAfterProbe(f) ==
    /\ fpc[f] \in {"probed", "estimated"}
    /\ Unpacks(VideoDuration(f))
    /\ disk' = [disk EXCEPT ![aac_path(f)] = Audio(disk[file_path(f)].bytes)]
    /\ fpc' = [fpc EXCEPT ![f] = "chunk"]
    /\ UNCHANGED <<loop, peer, orphans, dvars, nchunks, combined, tvars>>

\* The unpacking raises, or ffmpeg fails after it: the except clause of
\* extract_audio_from_video removes the .aac path and raises again, and
\* process_file logs the exception.
ExtractAfterProbeFail(f) ==
    /\ fpc[f] \in {"probed", "estimated"}
    /\ disk' = Removed(disk, {aac_path(f)})
    /\ fpc' = [fpc EXCEPT ![f] = "failed"]
    /\ UNCHANGED <<loop, peer, orphans, dvars, nchunks, combined, tvars>>

\* chunk_audio(audio_path) converts a file that is no .aac file to one, cuts
\* it into n valid chunks and removes the invalid ones after them;
\* transcribe_audio creates a task per chunk, or returns None for no chunk.
ChunkAudio(f, n) ==
    /\ fpc[f] = "chunk"
    /\ LET b == disk[audio_path(f)].bytes IN
       disk' = [p \in AllPaths |->
                   IF p = aac_path(f) /\ audio_path(f) # aac_path(f) THEN Audio(b)
                   ELSE IF \E i \in 0 .. n - 1 : p = chunk_path(f, i)
                        THEN ChunkFile(b, CHOOSE i \in 0 .. n - 1 : p = chunk_path(f, i))
                   ELSE IF \E i \in n .. n + 2 : p = chunk_path(f, i) THEN Absent
                   ELSE disk[p]]
    /\ nchunks' = [nchunks EXCEPT ![f] = n]
    /\ pc' = [s \in DOMAIN pc |-> IF s[1] # f THEN pc[s]
                                  ELSE IF s[2] < n THEN "slot" ELSE "none"]
    /\ tries' = [s \in DOMAIN tries |-> IF s[1] # f THEN tries[s] ELSE 0]
    /\ fpc' = [fpc EXCEPT ![f] = IF n = 0 THEN "transcribed" ELSE "gather"]
    /\ UNCHANGED <<loop, peer, orphans, free, level, window, calls, budget, combined, tvars>>

\* The conversion to .aac fails: chunk_audio raises and transcribe_audio
\* returns None.
ChunkFail(f) ==
    /\ fpc[f] = "chunk"
    /\ audio_path(f) # aac_path(f)
    /\ fpc' = [fpc EXCEPT ![f] = "transcribed"]
    /\ UNCHANGED <<loop, peer, orphans, dvars, nchunks, combined, disk, tvars>>

\* fix_encoding: the substitutions of the table, of which one is kept.
fix_encoding(q) == [i \in 1 .. Len(q) |-> IF q[i] = "Ã£" THEN "ã" ELSE q[i]]

SourceBytes(f) == disk[file_path(f)].bytes

\* transcribe_audio has returned to process_file: its chunks, tasks and
\* results are no more.
Returned(f) ==
    /\ pc' = [s \in DOMAIN pc |-> IF s[1] = f THEN "none" ELSE pc[s]]
    /\ tries' = [s \in DOMAIN tries |-> IF s[1] = f THEN 0 ELSE tries[s]]
    /\ nchunks' = [nchunks EXCEPT ![f] = 0]
    /\ UNCHANGED <<loop, peer, orphans, free, level, window, calls, budget>>

\* transcribe_audio returned None: the failure is logged.
NoTranscription(f) ==
    /\ fpc[f] = "transcribed"
    /\ combined[f] = None
    /\ fpc' = [fpc EXCEPT ![f] = "cleanup_none"]
    /\ Returned(f)
    /\ UNCHANGED <<loop, peer, orphans, combined, disk, tvars>>

\* json_to_markdown: aiofiles.open(non_diarized_file, 'w') creates or
\* empties the file.
OpenPlain(f) ==
    /\ fpc[f] = "transcribed"
    /\ combined[f] # None
    /\ disk' = [disk EXCEPT ![transcript_path(f)] = TextFile(<<>>, SourceBytes(f), FALSE)]
    /\ fpc' = [fpc EXCEPT ![f] = "open1"]
    /\ Returned(f)
    /\ UNCHANGED <<loop, peer, orphans, combined, tvars>>

\* aiofiles.open(diarized_file, 'w')
OpenDiarized(f) ==
    /\ fpc[f] = "open1"
    /\ disk' = [disk EXCEPT ![diarized_transcript_path(f)] =
                                TextFile(<<>>, SourceBytes(f), FALSE)]
    /\ fpc' = [fpc EXCEPT ![f] = "open2"]
    /\ UNCHANGED <<loop, peer, orphans, dvars, nchunks, combined, tvars>>

\* The transcript of the alternative is written to the plain file.
WritePlain(f) ==
    /\ fpc[f] = "open2"
    /\ disk' = [disk EXCEPT ![transcript_path(f)] =
                   TextFile(<<fix_encoding(combined[f].transcript)>>, SourceBytes(f), TRUE)]
    /\ fpc' = [fpc EXCEPT ![f] = "plain_written"]
    /\ UNCHANGED <<loop, peer, orphans, dvars, nchunks, combined, tvars>>

\* The paragraphs are written to the diarized file and both files closed.
WriteDiarized(f) ==
    /\ fpc[f] = "plain_written"
    /\ disk' = [disk EXCEPT ![diarized_transcript_path(f)] =
                   TextFile([i \in 1 .. Len(combined[f].paragraphs) |->
                                fix_encoding(combined[f].paragraphs[i])],
                            SourceBytes(f), TRUE)]
    /\ fpc' = [fpc EXCEPT ![f] = "cleanup_ok"]
    /\ UNCHANGED <<loop, peer, orphans, dvars, nchunks, combined, tvars>>

\* The next operation of json_to_markdown (an open, a write) raises: the
\* files opened so far are closed as they are, and process_file logs the
\* exception, skipping its cleanup.
WriteError(f) ==
    /\ \/ fpc[f] = "transcribed" /\ combined[f] # None
       \/ fpc[f] \in {"open1", "open2", "plain_written"}
    /\ fpc' = [fpc EXCEPT ![f] = "failed"]
    /\ combined' = [combined EXCEPT ![f] = None]
    /\ Returned(f)
    /\ UNCHANGED <<loop, peer, orphans, disk, tvars>>

\* The audio extracted from a video is removed, and process_file returns.
Cleanup(f) ==
    /\ fpc[f] \in {"cleanup_ok", "cleanup_none"}
    /\ disk' = IF audio_path(f) # file_path(f) THEN Removed(disk, {audio_path(f)}) ELSE disk
    /\ fpc' = [fpc EXCEPT ![f] = IF fpc[f] = "cleanup_ok" THEN "done" ELSE "untranscribed"]
    /\ combined' = [combined EXCEPT ![f] = None]
    /\ UNCHANGED <<loop, peer, orphans, dvars, nchunks, tvars>>

\* How process_file ends: transcripts saved, no transcription obtained, an
\* exception logged, or transcripts already there.
Final == {"done", "untranscribed", "failed", "skipped"}

\* The file is submitted again (the menu choice taken again, a later run).
ReRun(f) ==
    /\ fpc[f] \in Final
    /\ fpc' = [fpc EXCEPT ![f] = "idle"]
    /\ UNCHANGED <<loop, peer, orphans, dvars, nchunks, combined, disk, tvars>>

\* The content of a media file that is not being processed changes.
Modify(t) ==
    /\ disk[PathStr(t)].kind = "media"
    /\ t.dir = WorkDir => fpc[t.name] \in Final \cup {"idle"}
    /\ disk' = [disk EXCEPT ![PathStr(t)] = Media(OtherBytes(@.bytes))]
    /\ UNCHANGED <<loop, peer, orphans, dvars, fvars, tvars>>

\* ------------------------------------------------------- chunk_audio
\* Durations are counted in milliseconds.
ChunkMs == CHUNK_SIZE * 1000

Min(a, b) == IF a <= b THEN a ELSE b

\* What ffmpeg -ss i * CHUNK_SIZE -t CHUNK_SIZE -c copy writes of an audio
\* of d milliseconds: the milliseconds from the start time to the end of
\* the chunk or of the audio, none when the start time is past the end.
Extent(d, i) == Max(0, Min(ChunkMs, d - i * ChunkMs))

\* os.path.getsize of the chunk, in bytes: bitrate_k bits per millisecond.
ChunkBytes(d, i) == (Extent(d, i) * bitrate_k) \div 8

\* is_valid_audio: False when the size in KB is below min_size_kb, and the
\* codec_type of a file that holds audio is audio.
is_valid_audio(d, i) == ~(ChunkBytes(d, i) < min_size_kb * 1024)

\* invalid_count after a chunk: 0 after a valid one, one more after an
\* invalid one.
Counted_NoReset(ok, n) == IF ok THEN n ELSE n + 1

Counted(ok, n) == IF ok THEN 0 ELSE n + 1

\* One turn of the loop of chunk_audio: the ffmpeg command for chunk_num
\* runs; a chunk that is made and valid is appended to chunks, any other
\* one is removed.
ChunkStep ==
    /\ loop # None
    /\ ~loop.over
    /\ ~(loop.invalid_count >= max_invalid)
    /\ LET i == loop.chunk_num
           ok == i \notin loop.fails /\ is_valid_audio(loop.duration, i)
       IN loop' = [loop EXCEPT !.chunks = IF ok THEN Append(@, i) ELSE @,
                               !.invalid_count = Counted(ok, @),
                               !.files = IF ok THEN @ \cup {i} ELSE @ \ {i},
                               !.chunk_num = i + 1]
    /\ UNCHANGED <<peer, orphans, dvars, fvars, disk, tvars>>

\* The loop is left after max_invalid invalid chunks in a row, and chunks
\* returned.
ChunkStop ==
    /\ loop # None
    /\ ~loop.over
    /\ loop.invalid_count >= max_invalid
    /\ loop' = [loop EXCEPT !.over = TRUE]
    /\ UNCHANGED <<peer, orphans, dvars, fvars, disk, tvars>>

\* ---------------------------------------------------------- FileTracker
\* {"directories": {}}
EmptyLedger == [d \in {} |-> None]

Put(fn, k, v) == [x \in DOMAIN fn \cup {k} |-> IF x = k THEN v ELSE fn[x]]

Drop(fn, k) == [x \in DOMAIN fn \ {k} |-> fn[x]]

\* get_file_hash: the SHA-256 digest of the bytes of the file.
get_file_hash(t) == "sha256:" \o disk[PathStr(t)].bytes

\* os.path.getsize: the media files of the model are one byte long.
getsize(t) == Len(<<disk[PathStr(t)].bytes>>)

\* processed_files["directories"][dir_path]["files"]
FilesOf(l, dir) == IF dir \in DOMAIN l THEN l[dir] ELSE EmptyLedger

is_file_processed(t) ==
    /\ t.dir \in DOMAIN ledger
    /\ get_file_hash(t) \in DOMAIN ledger[t.dir]

\* How a call ends: with a value returned, or with an exception.
Returns(v) == [returned |-> v]

Raises(e) == [raised |-> e]

\* self.processed_files["directories"] raises when what was loaded is no
\* dict with that key; ledger then holds the exception it raises.
Unsubscriptable(l) == DOMAIN l = {"raised"}

\* What processed_files.json may hold besides a ledger written by
\* save_processed_files: nothing (or blanks), text that is no JSON, and the
\* JSON texts of an empty object and of an empty list.
Text_(t) == [text |-> t]

JunkFiles == {Text_(""), Text_("{not json"), Text_("{}"), Text_("[]")}

\* load_processed_files on a ledger file holding c (None: no such file).
load_processed_files(c) ==
    IF c = None THEN EmptyLedger
    ELSE IF DOMAIN c = {"text"}
         THEN IF c.text = "" THEN EmptyLedger
              ELSE IF c.text = "{}" THEN Raises("KeyError")
              ELSE IF c.text = "[]" THEN Raises("TypeError")
              ELSE EmptyLedger
    ELSE c

\* is_file_processed(file_path) is called.
ask_is_file_processed(t) ==
    /\ Exists(PathStr(t))
    /\ outcome' = IF Unsubscriptable(ledger) THEN ledger
                  ELSE Returns(IF is_file_processed(t) THEN "True" ELSE "False")
    /\ UNCHANGED <<loop, peer, orphans, dvars, fvars, disk, ledger, saved, clock>>

\* The record of the hash under the directory of the file is set, and the
\* ledger saved.
mark_file_as_processed(t) ==
    /\ Exists(PathStr(t))
    /\ IF Unsubscriptable(ledger)
       THEN /\ outcome' = ledger
            /\ UNCHANGED <<loop, peer, orphans, ledger, saved>>
       ELSE /\ ledger' = Put(ledger, t.dir,
                             Put(FilesOf(ledger, t.dir), get_file_hash(t),
                                 [name |-> t.name, size |-> getsize(t),
                                  processed_time |-> clock, path |-> PathStr(t)]))
            /\ saved' = ledger'
            /\ outcome' = Returns("None")
    /\ UNCHANGED <<loop, peer, orphans, dvars, fvars, disk, clock>>

\* The record of the hash under the directory of the file is deleted, with
\* the directory when no record is left in it, and the ledger saved: True;
\* with no such record, False.
remove_file(t) ==
    /\ Exists(PathStr(t))
    /\ IF Unsubscriptable(ledger)
       THEN /\ outcome' = ledger
            /\ UNCHANGED <<loop, peer, orphans, ledger, saved>>
       ELSE IF is_file_processed(t)
       THEN /\ LET left == Drop(ledger[t.dir], get_file_hash(t)) IN
               ledger' = IF DOMAIN left = {} THEN Drop(ledger, t.dir)
                         ELSE Put(ledger, t.dir, left)
            /\ saved' = ledger'
            /\ outcome' = Returns("True")
       ELSE /\ outcome' = Returns("False")
            /\ UNCHANGED <<loop, peer, orphans, ledger, saved>>
    /\ UNCHANGED <<loop, peer, orphans, dvars, fvars, disk, clock>>

\* mark_file_as_processed called on the FileTracker of the second run: its
\* own processed_files gets the record and is written over the ledger file.
peer_mark_file_as_processed(t) ==
    /\ peer # None
    /\ Exists(PathStr(t))
    /\ peer' = Put(peer, t.dir,
                   Put(FilesOf(peer, t.dir), get_file_hash(t),
                       [name |-> t.name, size |-> getsize(t),
                        processed_time |-> clock, path |-> PathStr(t)]))
    /\ saved' = peer'
    /\ UNCHANGED <<loop, orphans, dvars, fvars, disk, ledger, clock, outcome>>

\* remove_file called on the FileTracker of the second run, which holds a
\* record of the file.
peer_remove_file(t) ==
    /\ peer # None
    /\ Exists(PathStr(t))
    /\ t.dir \in DOMAIN peer
    /\ get_file_hash(t) \in DOMAIN peer[t.dir]
    /\ LET left == Drop(peer[t.dir], get_file_hash(t)) IN
       peer' = IF DOMAIN left = {} THEN Drop(peer, t.dir) ELSE Put(peer, t.dir, left)
    /\ saved' = peer'
    /\ UNCHANGED <<loop, orphans, dvars, fvars, disk, ledger, clock, outcome>>

\* get_processed_files_in_directory(directory): the records under it.
get_processed_files_in_directory(dir) ==
    /\ outcome' = IF Unsubscriptable(ledger) THEN ledger
                  ELSE [returned |-> "dict", files |-> FilesOf(ledger, dir)]
    /\ UNCHANGED <<loop, peer, orphans, dvars, fvars, disk, ledger, saved, clock>>

\* Time passes.
Advance ==
    /\ clock < MaxClock
    /\ clock' = clock + 1
    /\ UNCHANGED <<loop, peer, orphans, dvars, fvars, disk, ledger, saved, outcome>>

\* ------------------------------------------------------ specifications
\* AudioTranscriber.__init__, with no task of any chunk.
NoDispatch(b, w) ==
    /\ loop = None
    /\ orphans = None
    /\ tries = [s \in Segs |-> 0]
    /\ free = SemaphoreSlots
    /\ level = 0
    /\ window = w
    /\ calls = 0
    /\ budget = b

\* FileTracker.__init__ with no processed_files.json.
NoLedger ==
    /\ peer = None
    /\ ledger = EmptyLedger
    /\ saved = None
    /\ clock = 0
    /\ outcome = None

\* The state in which the files (with bytes A) have been cut into n[f]
\* chunks and the tasks of the chunks created, with b attempts to fail and
\* the calls of the next w ticks counted.
Dispatching(n, b, w) ==
    /\ nchunks = n
    /\ pc = [s \in Segs |-> IF s[2] < n[s[1]] THEN "slot" ELSE "none"]
    /\ NoDispatch(b, w)
    /\ fpc = [f \in Files |-> "gather"]
    /\ combined = [f \in Files |-> None]
    /\ disk = [p \in AllPaths |->
                  IF \E f \in Files : p = file_path(f) THEN Media("A")
                  ELSE IF \E f \in Files : p = aac_path(f) THEN Audio("A")
                  ELSE IF \E s \in Segs : s[2] < n[s[1]] /\ p = chunk_path(s[1], s[2])
                       THEN ChunkFile("A", (CHOOSE s \in Segs : p = chunk_path(s[1], s[2]))[2])
                  ELSE Absent]
    /\ NoLedger

\* x.mp4 has MaxSeg chunks and y.mp3, a short file, one.
Init == Dispatching([f \in Files |-> IF f = "x.mp4" THEN MaxSeg ELSE 1], MaxFail, 0)

Dispatch ==
    \/ \E s \in Segs : AcquireSlot(s)
    \/ \E s \in Segs : AcquirePermit(s)
    \/ \E s \in Segs : CallOk(s)
    \/ \E s \in Segs, kind \in Exceptions : CallRaise(s, kind)
    \/ \E s \in Segs : Retry(s)
    \/ \E f \in Files : Gather(f)
    \/ Tick

Next == Dispatch

Spec == Init /\ [][Next]_vars

\* More chunks than slots: x.mp4 has CapSeg chunks, y.mp3 one, and the
\* provider fails one attempt.
CapInit == Dispatching([f \in Files |-> IF f = "x.mp4" THEN CapSeg ELSE 1], 1, 0)

CapSpec == CapInit /\ [][Next]_vars

\* Either one chunk more than the semaphore has slots (as many as slots
\* for x.mp4, and one for y.mp3), the provider failing one attempt, or
\* three chunks and as many attempts failing as make a chunk give up. As
\* long as a step can be taken one is: the event loop runs a task that can
\* run, a provider call returns or raises (after self.timeout at the
\* latest), or time passes.
FairInit ==
    \/ Dispatching([f \in Files |-> IF f = "x.mp4" THEN SemaphoreSlots ELSE 1], 1, 0)
    \/ Dispatching([f \in Files |-> IF f = "x.mp4" THEN 2 ELSE 1], max_tries, 0)

FairSpec ==
    /\ FairInit
    /\ [][Next]_vars
    /\ WF_vars(Next)

\* The run of the dispatch of Init with the worker threads observed: none
\* is running a call yet.
ThreadInit ==
    /\ nchunks = [f \in Files |-> IF f = "x.mp4" THEN MaxSeg ELSE 1]
    /\ pc = [s \in Segs |-> IF s[2] < nchunks[s[1]] THEN "slot" ELSE "none"]
    /\ loop = None
    /\ orphans = [running |-> 0]
    /\ tries = [s \in Segs |-> 0]
    /\ free = SemaphoreSlots
    /\ level = 0
    /\ window = 0
    /\ calls = 0
    /\ budget = MaxFail
    /\ fpc = [f \in Files |-> "gather"]
    /\ combined = [f \in Files |-> None]
    /\ disk = [p \in AllPaths |->
                  IF \E f \in Files : p = file_path(f) THEN Media("A")
                  ELSE IF \E f \in Files : p = aac_path(f) THEN Audio("A")
                  ELSE IF \E s \in Segs : s[2] < nchunks[s[1]] /\ p = chunk_path(s[1], s[2])
                       THEN ChunkFile("A", (CHOOSE s \in Segs : p = chunk_path(s[1], s[2]))[2])
                  ELSE Absent]
    /\ NoLedger

ThreadNext == Dispatch \/ ThreadEnds

ThreadSpec == ThreadInit /\ [][ThreadNext]_vars

\* The calls initiated in the first second of the run, which starts with
\* the bucket of the rate limiter empty of units (all its capacity free).
RateInit == Dispatching([f \in Files |-> IF f = "x.mp4" THEN MaxSeg ELSE 1], MaxFail, max_rate)

RateSpec == RateInit /\ [][Next]_vars

\* The media files of the directory, with bytes A, and nothing else; no
\* file is being processed.
PipeInit ==
    /\ nchunks = [f \in Files |-> 0]
    /\ pc = [s \in Segs |-> "none"]
    /\ NoDispatch(1, 0)
    /\ fpc = [f \in Files |-> "idle"]
    /\ combined = [f \in Files |-> None]
    /\ disk = [p \in AllPaths |->
                  IF \E f \in Files : p = file_path(f) THEN Media("A") ELSE Absent]
    /\ NoLedger

\* FileHandler.on_created: the handler of the watcher runs process_file on
\* the file of the event to its end (asyncio.run) before the next event.
on_created(f) ==
    /\ \A g \in Files \ {f} : fpc[g] \in Final \cup {"idle"}
    /\ Begin(f)

\* The steps of process_file on the files of the events, one file at a
\* time, and a file being submitted again.
ProcessNext ==
    \/ Dispatch
    \/ \E f \in Files : on_created(f)
    \/ \E f \in Files : ExtractOk(f)
    \/ \E f \in Files : ExtractFail(f)
    \/ \E f \in Files : \E n \in 0 .. (IF f = "x.mp4" THEN PipeSeg ELSE 1) : ChunkAudio(f, n)
    \/ \E f \in Files : ChunkFail(f)
    \/ \E f \in Files : NoTranscription(f)
    \/ \E f \in Files : OpenPlain(f)
    \/ \E f \in Files : OpenDiarized(f)
    \/ \E f \in Files : WritePlain(f)
    \/ \E f \in Files : WriteDiarized(f)
    \/ \E f \in Files : WriteError(f)
    \/ \E f \in Files : Cleanup(f)
    \/ \E f \in Files : ReRun(f)

\* The files of the directory keep their bytes.
ProcessSpec == PipeInit /\ [][ProcessNext]_vars

\* The steps of process_file with the call of get_duration in
\* extract_audio_from_video told apart from what follows it.
ProbeNext ==
    \/ Dispatch
    \/ \E f \in Files : on_created(f)
    \/ \E f \in Files, readable \in BOOLEAN : GetVideoDuration(f, readable)
    \/ \E f \in Files : ExtractAfterProbe(f)
    \/ \E f \in Files : ExtractAfterProbeFail(f)
    \/ \E f \in Files : \E n \in 0 .. (IF f = "x.mp4" THEN PipeSeg ELSE 1) : ChunkAudio(f, n)
    \/ \E f \in Files : ChunkFail(f)
    \/ \E f \in Files : NoTranscription(f)
    \/ \E f \in Files : OpenPlain(f)
    \/ \E f \in Files : OpenDiarized(f)
    \/ \E f \in Files : WritePlain(f)
    \/ \E f \in Files : WriteDiarized(f)
    \/ \E f \in Files : WriteError(f)
    \/ \E f \in Files : Cleanup(f)
    \/ \E f \in Files : ReRun(f)

ProbeSpec == PipeInit /\ [][ProbeNext]_vars

\* The directory also holds the media files x.aac and y.aac, with bytes B:
\* audio files of their own, which no run made.
ShareInit ==
    /\ nchunks = [f \in Files |-> 0]
    /\ pc = [s \in Segs |-> "none"]
    /\ NoDispatch(1, 0)
    /\ fpc = [f \in Files |-> "idle"]
    /\ combined = [f \in Files |-> None]
    /\ disk = [p \in AllPaths |->
                  IF \E f \in Files : p = file_path(f) THEN Media("A")
                  ELSE IF \E f \in Files : p = aac_path(f) THEN Media("B")
                  ELSE Absent]
    /\ NoLedger

\* process_file is run on x.mp4 and on y.mp3 in that directory.
ShareSpec == ShareInit /\ [][ProcessNext]_vars

\* The bytes of a file may change between two runs on it.
PipeNext ==
    \/ ProcessNext
    \/ \E f \in Files : Modify([dir |-> WorkDir, name |-> f])

PipelineSpec == PipeInit /\ [][PipeNext]_vars

\* transcribe_all_in_directory: process_file is called once on each media
\* file of the directory, the calls running concurrently (gather), with as
\* many attempts of provider calls to fail as make a chunk give up.
BatchInit ==
    /\ nchunks = [f \in Files |-> 0]
    /\ pc = [s \in Segs |-> "none"]
    /\ NoDispatch(max_tries, 0)
    /\ fpc = [f \in Files |-> "idle"]
    /\ combined = [f \in Files |-> None]
    /\ disk = [p \in AllPaths |->
                  IF \E f \in Files : p = file_path(f) THEN Media("A") ELSE Absent]
    /\ NoLedger

\* The steps of the batch when chunk_audio returns k chunks at most for
\* x.mp4, and one at most for y.mp3.
BatchSteps(k) ==
    \/ Dispatch
    \/ \E f \in Files : Begin(f)
    \/ \E f \in Files : ExtractOk(f)
    \/ \E f \in Files : ExtractFail(f)
    \/ \E f \in Files : \E n \in 0 .. (IF f = "x.mp4" THEN k ELSE 1) : ChunkAudio(f, n)
    \/ \E f \in Files : ChunkFail(f)
    \/ \E f \in Files : NoTranscription(f)
    \/ \E f \in Files : OpenPlain(f)
    \/ \E f \in Files : OpenDiarized(f)
    \/ \E f \in Files : WritePlain(f)
    \/ \E f \in Files : WriteDiarized(f)
    \/ \E f \in Files : WriteError(f)
    \/ \E f \in Files : Cleanup(f)

BatchNext == BatchSteps(PipeSeg)

BatchSpec == BatchInit /\ [][BatchNext]_vars

\* The steps of process_file(f), its chunk tasks included, in a batch of
\* files of two chunks at most.
FileStep(f) ==
    \/ Begin(f) \/ ExtractOk(f) \/ ExtractFail(f)
    \/ \E n \in 0 .. (IF f = "x.mp4" THEN 2 ELSE 1) : ChunkAudio(f, n)
    \/ ChunkFail(f) \/ Gather(f) \/ NoTranscription(f)
    \/ OpenPlain(f) \/ OpenDiarized(f) \/ WritePlain(f) \/ WriteDiarized(f)
    \/ WriteError(f) \/ Cleanup(f)
    \/ \E s \in Segs : s[1] = f /\ (AcquireSlot(s) \/ AcquirePermit(s) \/ CallOk(s) \/ Retry(s))
    \/ \E s \in Segs, kind \in Exceptions : s[1] = f /\ CallRaise(s, kind)

\* The event loop runs every task that can run, the calls made in threads
\* return or raise, and time passes.
FairBatchSpec ==
    /\ BatchInit
    /\ [][BatchSteps(2)]_vars
    /\ WF_vars(Tick)
    /\ \A f \in Files : WF_vars(FileStep(f))

\* The directory holds x.mp4, with bytes A, and x.mp3, with bytes B, and
\* transcribe_all_in_directory is called: get_media_files returns both.
\* The provider fails two attempts.
TwinFiles == {"x.mp4", "x.mp3"}

TwinSegs == TwinFiles \X (0 .. MaxChunks - 1)

TwinInit ==
    /\ nchunks = [f \in TwinFiles |-> 0]
    /\ pc = [s \in TwinSegs |-> "none"]
    /\ tries = [s \in TwinSegs |-> 0]
    /\ loop = None
    /\ orphans = None
    /\ free = SemaphoreSlots
    /\ level = 0
    /\ window = 0
    /\ calls = 0
    /\ budget = 2
    /\ fpc = [f \in TwinFiles |-> "idle"]
    /\ combined = [f \in TwinFiles |-> None]
    /\ disk = [p \in AllPaths |->
                  IF p = file_path("x.mp4") THEN Media("A")
                  ELSE IF p = file_path("x.mp3") THEN Media("B")
                  ELSE Absent]
    /\ NoLedger

\* Where process_file(f) stands at its first await, after the test of the
\* transcript files.
Started(f) == IF Suffix(f) \in VideoSuffixes THEN "extract" ELSE "chunk"

\* Every other process_file of the batch stands at its first await or
\* has returned.
Alone(f) == \A g \in DOMAIN fpc \ {f} : fpc[g] \in Final \cup {Started(g)}

\* The runs of the batch in which each process_file runs up to its first
\* await when gather starts the tasks, and the jobs of the files (the
\* extraction, the chunking, the chunk tasks, the writing) then take their
\* turns, one file after the other.
TwinNext ==
    \/ \E f \in TwinFiles : Begin(f)
    \/ \E f \in TwinFiles : Alone(f) /\ ExtractOk(f)
    \/ \E f \in TwinFiles : Alone(f) /\ ExtractFail(f)
    \/ \E f \in TwinFiles : \E n \in 0 .. PipeSeg : Alone(f) /\ ChunkAudio(f, n)
    \/ \E f \in TwinFiles : Alone(f) /\ ChunkFail(f)
    \/ \E s \in TwinSegs : AcquireSlot(s)
    \/ \E s \in TwinSegs : AcquirePermit(s)
    \/ \E s \in TwinSegs : CallOk(s)
    \/ \E s \in TwinSegs, kind \in Exceptions : CallRaise(s, kind)
    \/ \E s \in TwinSegs : Retry(s)
    \/ Tick
    \/ \E f \in TwinFiles : Gather(f)
    \/ \E f \in TwinFiles : NoTranscription(f)
    \/ \E f \in TwinFiles : OpenPlain(f)
    \/ \E f \in TwinFiles : OpenDiarized(f)
    \/ \E f \in TwinFiles : WritePlain(f)
    \/ \E f \in TwinFiles : WriteDiarized(f)
    \/ \E f \in TwinFiles : WriteError(f)
    \/ \E f \in TwinFiles : Cleanup(f)

TwinSpec == TwinInit /\ [][TwinNext]_vars

\* The media files, x.mp4 also in the other directory, all with bytes A;
\* the tracker is called from outside.
TrackerInit ==
    /\ nchunks = [f \in Files |-> 0]
    /\ pc = [s \in Segs |-> "none"]
    /\ NoDispatch(0, 0)
    /\ fpc = [f \in Files |-> "idle"]
    /\ combined = [f \in Files |-> None]
    /\ disk = [p \in AllPaths |->
                  IF \E t \in TrackedFiles : p = PathStr(t) THEN Media("A") ELSE Absent]
    /\ NoLedger

TrackerNext ==
    \/ \E t \in TrackedFiles : ask_is_file_processed(t)
    \/ \E t \in TrackedFiles : mark_file_as_processed(t)
    \/ \E t \in TrackedFiles : remove_file(t)
    \/ \E dir \in {WorkDir, OtherDir} : get_processed_files_in_directory(dir)
    \/ \E t \in TrackedFiles : Modify(t)
    \/ Advance

TrackerSpec == TrackerInit /\ [][TrackerNext]_vars

\* FileTracker.__init__ on a ledger file that is missing, that holds junk,
\* or that holds the ledger with the record of y.mp3 a former run saved.
FormerLedger ==
    Put(EmptyLedger, WorkDir,
        Put(EmptyLedger, "sha256:A",
            [name |-> "y.mp3", size |-> 1, processed_time |-> 0,
             path |-> PathOf(WorkDir, "y.mp3")]))

StartInit ==
    /\ nchunks = [f \in Files |-> 0]
    /\ pc = [s \in Segs |-> "none"]
    /\ NoDispatch(0, 0)
    /\ fpc = [f \in Files |-> "idle"]
    /\ combined = [f \in Files |-> None]
    /\ disk = [p \in AllPaths |->
                  IF \E t \in TrackedFiles : p = PathStr(t) THEN Media("A") ELSE Absent]
    /\ peer = None
    /\ saved \in {None, FormerLedger} \cup JunkFiles
    /\ ledger = load_processed_files(saved)
    /\ clock = 0
    /\ outcome = None

StartSpec == StartInit /\ [][TrackerNext]_vars

\* The tracker starts with no ledger file in a directory where y.mp3 has
\* the two transcripts an earlier run of process_file wrote.
AdoptInit ==
    /\ nchunks = [f \in Files |-> 0]
    /\ pc = [s \in Segs |-> "none"]
    /\ NoDispatch(0, 0)
    /\ fpc = [f \in Files |-> "idle"]
    /\ combined = [f \in Files |-> None]
    /\ disk = [p \in AllPaths |->
                  IF \E t \in TrackedFiles : p = PathStr(t) THEN Media("A")
                  ELSE IF p = transcript_path("y.mp3")
                       THEN TextFile(<<Text(<<"y.mp3", 0>>)>>, "A", TRUE)
                  ELSE IF p = diarized_transcript_path("y.mp3")
                       THEN TextFile(<<Text(<<"y.mp3", 0>>)>>, "A", TRUE)
                  ELSE Absent]
    /\ NoLedger

AdoptSpec == AdoptInit /\ [][TrackerNext]_vars

\* Two runs of the program share the script directory, and so the ledger
\* file: each has made its FileTracker, which loaded the ledger (there was
\* no file yet), and each works in a directory of its own, the first in
\* WorkDir and the second in OtherDir. A call of a method of a tracker runs
\* to its end before the next call of any.
WritersInit ==
    /\ nchunks = [f \in Files |-> 0]
    /\ pc = [s \in Segs |-> "none"]
    /\ NoDispatch(0, 0)
    /\ fpc = [f \in Files |-> "idle"]
    /\ combined = [f \in Files |-> None]
    /\ disk = [p \in AllPaths |->
                  IF \E t \in TrackedFiles : p = PathStr(t) THEN Media("A") ELSE Absent]
    /\ saved = None
    /\ ledger = load_processed_files(saved)
    /\ peer = load_processed_files(saved)
    /\ clock = 0
    /\ outcome = None

WritersNext ==
    \/ \E t \in TrackedFiles : t.dir = WorkDir /\ mark_file_as_processed(t)
    \/ \E t \in TrackedFiles : t.dir = WorkDir /\ remove_file(t)
    \/ \E t \in TrackedFiles : t.dir = OtherDir /\ peer_mark_file_as_processed(t)
    \/ \E t \in TrackedFiles : t.dir = OtherDir /\ peer_remove_file(t)
    \/ \E t \in TrackedFiles : Modify(t)
    \/ Advance

WritersSpec == WritersInit /\ [][WritersNext]_vars

\* chunk_audio enters its loop on an .aac file of some duration (whole
\* chunks and a remainder), with the chunk numbers at which ffmpeg fails.
Remainders == {0, 300, 640, 450000}

Durations == {k * ChunkMs + r : k \in 0 .. PlanSeg, r \in Remainders} \ {0}

ChunkInit ==
    /\ nchunks = [f \in Files |-> 0]
    /\ pc = [s \in Segs |-> "none"]
    /\ tries = [s \in Segs |-> 0]
    /\ free = SemaphoreSlots
    /\ level = 0
    /\ window = 0
    /\ calls = 0
    /\ budget = 0
    /\ orphans = None
    /\ fpc = [f \in Files |-> "chunk"]
    /\ combined = [f \in Files |-> None]
    /\ disk = [p \in AllPaths |->
                  IF \E f \in Files : p = file_path(f) THEN Media("A")
                  ELSE IF p = aac_path("x.mp4") THEN Audio("A") ELSE Absent]
    /\ NoLedger
    /\ \E d \in Durations, bad \in SUBSET (0 .. PlanSeg) :
          loop = [duration |-> d, fails |-> bad, chunk_num |-> 0, invalid_count |-> 0,
                  chunks |-> <<>>, files |-> {}, over |-> FALSE]

ChunkNext == ChunkStep \/ ChunkStop

ChunkSpec == ChunkInit /\ [][ChunkNext]_vars

\* =====================================================================
\* The recombined transcript
\* =====================================================================
\* The chunks of f whose task ended with a response.
OkChunks(f) == {i \in 0 .. nchunks[f] - 1 : pc[<<f, i>>] = "ok"}

FailedChunks(f) == {i \in 0 .. nchunks[f] - 1 : pc[<<f, i>>] \in Exceptions}

Least(S) == CHOOSE m \in S : \A k \in S : m <= k

\* The texts of the chunks S of f, lowest chunk number first, one space
\* between two texts.
RECURSIVE JoinAscending(_, _)
JoinAscending(f, S) ==
    IF S = {} THEN <<>>
    ELSE IF S = {Least(S)} THEN Text(<<f, Least(S)>>)
    ELSE Text(<<f, Least(S)>>) \o <<" ">> \o JoinAscending(f, S \ {Least(S)})

\* The places of the text w in the stream q.
Places(q, w) == {j \in 1 .. Len(q) - 1 : q[j] = w[1] /\ q[j + 1] = w[2]}

\* C1: once transcribe_audio has returned for a file with a successful
\* chunk, whatever the order in which the calls ended, the plain-text stream
\* is the texts of the successful chunks in ascending chunk number, joined
\* by one space, each text being there exactly once.
C1_OrderedJoin ==
    \A f \in Files :
        (fpc[f] = "transcribed" /\ OkChunks(f) # {}) =>
            /\ combined[f] # None
            /\ combined[f].transcript = JoinAscending(f, OkChunks(f))
            /\ \A i \in OkChunks(f) :
                   Cardinality(Places(combined[f].transcript, Text(<<f, i>>))) = 1

\* x.mp4 recombined from three successful chunks, the first of which
\* succeeded only at its third attempt, after the others.
C1_Witness ==
    /\ fpc["x.mp4"] = "transcribed"
    /\ OkChunks("x.mp4") = 0 .. MaxSeg - 1
    /\ tries[<<"x.mp4", 0>>] = max_tries
    /\ Len(combined["x.mp4"].transcript) = 3 * MaxSeg - 1

\* The number of successful chunks of f before chunk i.
Rank(f, i) == Cardinality({j \in OkChunks(f) : j < i})

\* C2: when some chunks of a file failed for good and others succeeded, the
\* transcript holds no text of a failed chunk and the unaltered text of
\* every successful chunk, at the place its rank among the successful
\* chunks gives it, and nothing else.
C2_PartialFailure ==
    \A f \in Files :
        (fpc[f] = "transcribed" /\ FailedChunks(f) # {} /\ OkChunks(f) # {}) =>
            /\ combined[f] # None
            /\ Len(combined[f].transcript) = 3 * Cardinality(OkChunks(f)) - 1
            /\ \A i \in FailedChunks(f) :
                   Places(combined[f].transcript, Text(<<f, i>>)) = {}
            /\ \A i \in OkChunks(f) :
                   Places(combined[f].transcript, Text(<<f, i>>)) = {3 * Rank(f, i) + 1}

\* Chunk 1 of x.mp4 exhausted its tries, chunks 0 and 2 succeeded.
C2_Witness ==
    /\ fpc["x.mp4"] = "transcribed"
    /\ FailedChunks("x.mp4") = {1}
    /\ OkChunks("x.mp4") = {0, 2}
    /\ combined["x.mp4"] # None

\* =====================================================================
\* The retry bound
\* =====================================================================
\* C3: a chunk is never attempted more than max_tries times; a chunk that
\* ended with an exception, a timeout as well as an error, was attempted
\* exactly max_tries times; a chunk waiting to be retried was attempted
\* fewer times; a chunk that succeeded was attempted between 1 and max_tries
\* times, and its last attempt is the one that succeeded.
C3_RetryBound ==
    \A s \in Segs :
        /\ tries[s] <= max_tries
        /\ pc[s] \in Exceptions => tries[s] = max_tries
        /\ pc[s] = "backoff" => tries[s] \in 1 .. max_tries - 1
        /\ pc[s] = "ok" => tries[s] \in 1 .. max_tries
        /\ pc[s] \in {"call", "permit"} => tries[s] \in 1 .. max_tries

\* A chunk whose third attempt timed out.
C3_Witness ==
    \E s \in Segs : pc[s] = "timeout" /\ tries[s] = max_tries

\* =====================================================================
\* The concurrency cap
\* =====================================================================
\* The chunks holding a slot of the semaphore.
InFlight == {s \in Segs : pc[s] \in {"permit", "call"}}

\* C4: the chunks holding a slot, of all files together, are never more
\* than the slots of the semaphore.
C4_GlobalCap == Cardinality(InFlight) <= SemaphoreSlots

\* All slots taken, by chunks of both files, and another chunk waiting.
C4_Witness ==
    /\ Cardinality(InFlight) = SemaphoreSlots
    /\ \A f \in Files : \E s \in InFlight : s[1] = f
    /\ \E s \in Segs : pc[s] = "slot"

\* =====================================================================
\* The rate of calls
\* =====================================================================
\* C5: no more than max_rate calls are initiated in one second.
C5_RateBound == calls <= max_rate

\* =====================================================================
\* The record of processed files
\* =====================================================================
Source(f) == [dir |-> WorkDir, name |-> f]

\* Both transcript files of f hold all their text.
TranscriptsComplete(f) ==
    /\ disk[transcript_path(f)].kind = "text"
    /\ disk[transcript_path(f)].complete
    /\ disk[diarized_transcript_path(f)].kind = "text"
    /\ disk[diarized_transcript_path(f)].complete

\* C6: when process_file has returned, the file has a record in the ledger
\* if and only if its transcripts were written by the run, or were there
\* already.
C6_RecordIffTranscript ==
    \A f \in Files :
        fpc[f] \in Final => (is_file_processed(Source(f)) <=> fpc[f] \in {"done", "skipped"})

\* C7: a file is skipped only when both its transcript files were written
\* to their end: a write that failed leaves nothing that makes a later run
\* skip the file.
C7_AtomicWrite ==
    \A f \in Files : fpc[f] = "skipped" => TranscriptsComplete(f)

\* The directories under which the ledger holds a record of hash h.
RecordsOf(h) == {d \in DOMAIN ledger : h \in DOMAIN ledger[d]}

\* C8: mark_file_as_processed on a file whose hash has a record leaves the
\* ledger as it is.
C8_MarkIdempotent ==
    [][\A t \in TrackedFiles :
          (RecordsOf(get_file_hash(t)) # {} /\ mark_file_as_processed(t)) => ledger' = ledger]_vars

\* C9: a file with the bytes of a processed file is processed, whatever
\* its path.
C9_HashIdentity ==
    \A t, u \in TrackedFiles :
        (get_file_hash(t) = get_file_hash(u) /\ is_file_processed(t)) => is_file_processed(u)

\* C10: a file is skipped for its complete transcripts only when they are
\* the transcripts of the bytes it has now.
C10_ChangedContent ==
    \A f \in Files :
        (fpc[f] = "skipped" /\ TranscriptsComplete(f)) =>
            /\ disk[transcript_path(f)].bytes = SourceBytes(f)
            /\ disk[diarized_transcript_path(f)].bytes = SourceBytes(f)

\* =====================================================================
\* The ledger file at startup
\* =====================================================================
\* The records of a ledger: <<directory, hash>>.
Records(l) ==
    IF Unsubscriptable(l) THEN {}
    ELSE UNION {{<<d, h>> : h \in DOMAIN l[d]} : d \in DOMAIN l}

\* C11: no call of the tracker raises, whatever the ledger file held at
\* startup, and as long as the file is missing or holds junk (nothing was
\* saved) the ledger has no record.
C11_LedgerResilience ==
    /\ DOMAIN outcome # {"raised"}
    /\ saved \in JunkFiles \cup {None} => Records(ledger) = {}

\* =====================================================================
\* The chunks of an audio file
\* =====================================================================
Ceil(a, b) == (a + b - 1) \div b

\* chunk_audio has returned its list of chunks.
Chunked == loop # None /\ loop.over

\* C12: with no failure of ffmpeg, the chunks returned for an audio of d
\* milliseconds are the chunks 0 .. ceil(d / CHUNK_SIZE) - 1 in this order,
\* chunk i starting at i * CHUNK_SIZE, each but the last CHUNK_SIZE long
\* and the last one holding the remainder, so that they cover the audio.
C12_SegmentPlan ==
    (Chunked /\ loop.fails = {}) =>
        LET n == Ceil(loop.duration, ChunkMs) IN
        /\ Len(loop.chunks) = n
        /\ \A k \in 1 .. Len(loop.chunks) : loop.chunks[k] = k - 1
        /\ \A k \in 1 .. Len(loop.chunks) - 1 : Extent(loop.duration, loop.chunks[k]) = ChunkMs
        /\ Len(loop.chunks) > 0 =>
               Extent(loop.duration, loop.chunks[Len(loop.chunks)])
                   = loop.duration - (n - 1) * ChunkMs

\* =====================================================================
\* The results of the chunks of a file
\* =====================================================================
\* The chunks of f given to transcribe_chunk.
ChunksOf(f) == {s \in Segs : s[1] = f /\ s[2] < nchunks[f]}

Ended(s) == pc[s] = "ok" \/ pc[s] = "error" \/ pc[s] = "timeout"

\* C13: when gather has returned for a file, each of its chunks has its
\* own outcome, a response or the exception of its last attempt of
\* max_tries, and no chunk without a task has one; and a chunk ending with
\* an exception changes nothing of any other chunk.
C13_EveryChunkEnded ==
    /\ [](\A f \in Files : fpc[f] = "transcribed" =>
             /\ Cardinality({s \in ChunksOf(f) : Ended(s)}) = nchunks[f]
             /\ \A s \in ChunksOf(f) : pc[s] # "ok" => tries[s] = max_tries
             /\ \A s \in Segs \ ChunksOf(f) : s[1] = f => pc[s] = "none")
    /\ [][\A s \in Segs :
            (pc[s] = "call" /\ pc'[s] \in {"error", "timeout"}) =>
                \A t \in Segs \ {s} : pc'[t] = pc[t] /\ tries'[t] = tries[t]]_vars

\* The first chunk of x.mp4 ended with an exception, and the chunks after
\* it, with the chunk of y.mp3, with a response each.
C13_Witness ==
    /\ \A f \in Files : fpc[f] = "transcribed"
    /\ pc[<<"x.mp4", 0>>] = "error"
    /\ \A s \in ChunksOf("x.mp4") \ {<<"x.mp4", 0>>} : pc[s] = "ok"
    /\ pc[<<"y.mp3", 0>>] = "ok"

\* =====================================================================
\* The failure of a file as a whole
\* =====================================================================
\* C14: transcribe_audio returns no transcription only when no chunk of
\* the file ended with a response (none was made, or all failed); with a
\* response of one chunk at least, process_file calls json_to_markdown on
\* the transcription (which opens the plain file, or raises), and without
\* one it writes nothing.
C14_WholeFileFailure ==
    /\ [](\A f \in Files : fpc[f] = "transcribed" =>
             (combined[f] = None <=> OkChunks(f) = {}))
    /\ [][\A f \in Files :
            (fpc[f] = "transcribed" /\ fpc'[f] # "transcribed") =>
                IF OkChunks(f) # {} THEN fpc'[f] \in {"open1", "failed"}
                ELSE fpc'[f] = "cleanup_none" /\ disk' = disk]_vars

\* One chunk of x.mp4 timed out and the other one was transcribed:
\* transcribe_audio returned a transcription.
C14_Witness ==
    /\ fpc["x.mp4"] = "transcribed"
    /\ nchunks["x.mp4"] = 2
    /\ pc[<<"x.mp4", 0>>] = "timeout"
    /\ pc[<<"x.mp4", 1>>] = "ok"
    /\ combined["x.mp4"] # None

\* =====================================================================
\* The run on a file that has its transcripts
\* =====================================================================
\* C15: process_file on a file whose two transcripts were written to their
\* end only skips it: from then on no step changes the transcript files or
\* the ledger, the file is not cut into chunks and none of its chunks has
\* a task.
C15_RerunIdempotent ==
    /\ [](\A f \in Files : TranscriptsComplete(f) =>
             /\ fpc[f] \in {"cleanup_ok", "done", "idle", "skipped"}
             /\ \A s \in Segs : s[1] = f => pc[s] = "none")
    /\ [][\A f \in Files : TranscriptsComplete(f) =>
             /\ disk'[transcript_path(f)] = disk[transcript_path(f)]
             /\ disk'[diarized_transcript_path(f)] = disk[diarized_transcript_path(f)]
             /\ ledger' = ledger
             /\ (fpc[f] = "idle" /\ fpc'[f] # "idle") => (fpc'[f] = "skipped" /\ disk' = disk)]_vars

\* x.mp4 was transcribed to its end, submitted again and skipped.
C15_Witness ==
    /\ fpc["x.mp4"] = "skipped"
    /\ TranscriptsComplete("x.mp4")
    /\ Len(disk[diarized_transcript_path("x.mp4")].body) = PipeSeg
    /\ ~Exists(aac_path("x.mp4"))

\* =====================================================================
\* The answer of is_file_processed
\* =====================================================================
\* The transcript process_file would write for the file is on disk.
ExpectedTranscript(t) == t.dir = WorkDir /\ Exists(transcript_path(t.name))

\* C16: is_file_processed answers True exactly for a file whose hash has a
\* record or whose transcript is on disk, and the ledger has a record of
\* the hash after an answer given for the transcript.
C16_IsProcessedAdopts ==
    [][\A t \in TrackedFiles : ask_is_file_processed(t) =>
          /\ outcome' = Returns("True")
                 <=> (RecordsOf(get_file_hash(t)) # {} \/ ExpectedTranscript(t))
          /\ ExpectedTranscript(t) =>
                 \E d \in DOMAIN ledger' : get_file_hash(t) \in DOMAIN ledger'[d]]_vars

\* =====================================================================
\* The files of a batch
\* =====================================================================
\* process_file(f) ended without transcripts: with an exception logged, or
\* with no transcription obtained.
FailedAsWhole(f) == fpc[f] \in {"failed", "cleanup_none", "untranscribed"}

\* The paths process_file(f) writes or removes.
PathsOf(f) ==
    {transcript_path(f), diarized_transcript_path(f), aac_path(f)}
    \cup {chunk_path(f, s[2]) : s \in Segs}

C18_BothGates ==
    /\ [](free = SemaphoreSlots - Cardinality(InFlight) /\ free >= 0 /\ level <= max_rate)
    /\ [][\A s \in Segs : (pc[s] # "call" /\ pc'[s] = "call") =>
             /\ level + 1 <= max_rate
             /\ level' = level + 1
             /\ \/ pc[s] = "slot" /\ free > 0 /\ free' = free - 1
                \/ pc[s] = "permit" /\ free' = free]_vars

\* A second attempt of a chunk is calling the provider while all slots are
\* taken, a task waits for a permit and another one for a slot.
C18_Witness ==
    /\ \E s \in Segs : pc[s] = "call" /\ tries[s] = 2
    /\ free = 0
    /\ \E s \in Segs : pc[s] = "permit"
    /\ \E s \in Segs : pc[s] = "slot"

\* =====================================================================
\* The end of the dispatch
\* =====================================================================
\* C19: every chunk that has a task ends with a response or an exception,
\* a task waiting for a slot or for a permit gets it, and transcribe_audio
\* returns for every file.
C19_EveryChunkTerminates ==
    <>[](/\ \A f \in Files : fpc[f] = "transcribed"
         /\ \A s \in Segs : pc[s] = "none" \/ Ended(s))

\* Six chunks, one more than slots, have all ended, one of them at its
\* second attempt, and transcribe_audio has returned for both files.
C19_Witness ==
    /\ \A f \in Files : fpc[f] = "transcribed"
    /\ nchunks["x.mp4"] = SemaphoreSlots
    /\ \A s \in Segs : s[2] < nchunks[s[1]] => Ended(s)
    /\ \E s \in Segs : tries[s] = 2

\* =====================================================================
\* The loop of chunk_audio
\* =====================================================================
\* The chunk numbers tried so far whose chunk was made and is valid.
ValidTried ==
    {i \in 0 .. loop.chunk_num - 1 : i \notin loop.fails /\ is_valid_audio(loop.duration, i)}

\* The invalid chunks in a row that end at the last chunk number tried.
InvalidInARow ==
    IF ValidTried = {} THEN loop.chunk_num
    ELSE loop.chunk_num - 1 - (CHOOSE m \in ValidTried : \A i \in ValidTried : i <= m)

\* C20: in the loop of chunk_audio, invalid_count is the number of invalid
\* chunks in a row just tried (0 after a valid one), the loop is left when
\* and only when it is max_invalid and no chunk is tried after that, the
\* files of the invalid chunks are removed, and chunks holds the valid
\* chunks tried, lowest chunk number first.
C20_ChunkLoop ==
    /\ [](loop # None =>
             /\ loop.invalid_count = InvalidInARow
             /\ loop.invalid_count <= max_invalid
             /\ loop.over => loop.invalid_count = max_invalid
             /\ loop.files = ValidTried
             /\ Len(loop.chunks) = Cardinality(ValidTried)
             /\ \A k \in 1 .. Len(loop.chunks) : loop.chunks[k] \in ValidTried
             /\ \A j, k \in 1 .. Len(loop.chunks) : j < k => loop.chunks[j] < loop.chunks[k])
    /\ [][(loop # None /\ loop.invalid_count = max_invalid) =>
             /\ loop'.over
             /\ loop'.chunk_num = loop.chunk_num
             /\ loop'.chunks = loop.chunks]_vars

\* ffmpeg failed on chunk 1 of an audio of three chunks: the loop went on,
\* was left after three chunks past the end, and chunks 0 and 2 are
\* returned.
C20_Witness ==
    /\ Chunked
    /\ loop.chunks = <<0, 2>>
    /\ loop.chunk_num = 6
    /\ loop.files = {0, 2}

\* =====================================================================
\* The chunk files of a file
\* =====================================================================
\* The task of chunk s has not ended: it waits for a slot or a permit,
\* calls the provider, or sleeps before its next attempt.
Pending(s) == pc[s] \in {"slot", "permit", "call", "backoff"}

\* The chunk files of f on disk.
ChunkFilesOf(f) == {i \in 0 .. MaxChunks - 1 : disk[chunk_path(f, i)].kind = "chunk"}

TemporaryOf(f) ==
    {p \in {aac_path(f)} \cup {chunk_path(f, i) : i \in 0 .. MaxChunks - 1} :
        p # file_path(f) /\ Exists(p)}

\* C22: when process_file has returned with the transcripts of a file
\* saved, video or audio, none of the temporary files of the file is on
\* disk.
C22_NoTemporaryLeft ==
    \A f \in Files : fpc[f] = "done" => TemporaryOf(f) = {}

\* C23: when json_to_markdown raises, process_file ends with the exception
\* logged, the tracker holds no record of the file, and the temporary
\* files of the file are on disk after the step: the chunk files of the
\* chunks transcribed and, for a video or an audio file that was
\* converted, the .aac file.
C23_WriteErrorKeepsTemporary ==
    [][\A f \in Files : WriteError(f) =>
          /\ fpc'[f] = "failed"
          /\ ~is_file_processed([dir |-> WorkDir, name |-> f])'
          /\ disk'[aac_path(f)].kind = "audio"
          /\ \E i \in 0 .. MaxChunks - 1 : disk'[chunk_path(f, i)].kind = "chunk"]_vars

\* =====================================================================
\* The duration of a file whose metadata cannot be read
\* =====================================================================
\* C24: get_duration on an audio file returns a duration, read or
\* estimated, and when it has returned the estimate of the duration of a
\* video to extract_audio_from_video, the extraction can go on to write
\* the .aac file.
C24_ProbeFailureContinues ==
    /\ \A readable \in BOOLEAN : get_duration(readable, FALSE).kind = "float"
    /\ \A f \in Files : fpc[f] = "estimated" => ENABLED ExtractAfterProbe(f)

\* =====================================================================
\* Two writers of the ledger file
\* =====================================================================
\* C25: whenever no call is running, the ledger file holds every record
\* that one of the two trackers was asked to mark and has not been asked
\* to remove since, that is every record a tracker holds in memory.
C25_NoLostUpdate ==
    peer # None =>
        Records(ledger) \cup Records(peer) \subseteq Records(load_processed_files(saved))

\* =====================================================================
\* The slots of the semaphore
\* =====================================================================
\* The tasks that hold a slot: between the semaphore and the end of their
\* attempt.
SlotHolders == {s \in Segs : pc[s] = "permit" \/ pc[s] = "call"}

\* C26: the free slots are between 0 and SemaphoreSlots and are the slots
\* no task holds, a task sleeping before its next attempt holding none;
\* the end of an attempt, with a response, an error or a timeout, gives
\* one slot back; and when every task has ended all slots are free.
C26_SlotsConserved ==
    /\ [](/\ free \in 0 .. SemaphoreSlots
          /\ free + Cardinality(SlotHolders) = SemaphoreSlots
          /\ (\A s \in Segs : pc[s] = "none" \/ Ended(s)) => free = SemaphoreSlots)
    /\ [][\A s \in Segs :
             (pc[s] = "call" /\ pc'[s] \in {"ok", "backoff", "error", "timeout"}) =>
                 free' = free + 1]_vars

\* All six tasks have ended, one of them at its second attempt, after a
\* time at which no slot was free: all slots are free again.
C26_Witness ==
    /\ \A s \in Segs : pc[s] = "none" \/ Ended(s)
    /\ Cardinality({s \in Segs : Ended(s)}) = CapSeg + 1
    /\ \E s \in Segs : tries[s] = 2
    /\ free = SemaphoreSlots

\* =====================================================================
\* The provider calls running in worker threads
\* =====================================================================
\* The provider calls being executed: those of the attempts in progress,
\* and those left running in their threads by attempts that timed out.
Executing == Cardinality({s \in Segs : pc[s] = "call"}) + orphans.running

\* C27: the provider calls being executed, those of abandoned attempts
\* included, are never more than the slots of the semaphore.
C27_ExecutingWithinCap == orphans # None => Executing <= SemaphoreSlots

\* =====================================================================
\* The media files of the directory
\* =====================================================================
\* C28: when process_file has returned for the files it was run on, the
\* media files of the directory, x.mp4 and y.mp3 and the audio files x.aac
\* and y.aac next to them, exist with the bytes they had.
C28_SourcesKept ==
    (\A g \in Files : fpc[g] \in Final \cup {"idle"}) =>
        \A f \in Files :
            /\ disk[file_path(f)] = Media("A")
            /\ disk[aac_path(f)] = Media("B")

\* =====================================================================
\* Two media files with one stem
\* =====================================================================
\* C29: in a batch, no process_file returns at its test of the transcript
\* files, and a file whose process_file has saved its transcripts has them
\* on disk from then on: both transcript files, complete, made from the
\* bytes of that file.
C29_OwnTranscript ==
    \A f \in DOMAIN fpc :
        /\ fpc[f] # "skipped"
        /\ fpc[f] = "done" =>
               /\ TranscriptsComplete(f)
               /\ disk[transcript_path(f)].bytes = SourceBytes(f)
               /\ disk[diarized_transcript_path(f)].bytes = SourceBytes(f)

====
